---- MODULE Spec2Model ----
(***************************************************************************)
(* A model of the egui/GStreamer video player of src/src/main.rs.          *)
(*                                                                         *)
(* Three threads of control are modelled:                                  *)
(*   - the UI thread, which runs eframe::App::update once per tick;        *)
(*   - the framework's streaming thread, which runs the appsink            *)
(*     new_sample callback;                                                *)
(*   - the external pipeline (playbin), a black box that completes state   *)
(*     changes asynchronously and posts messages on its bus.               *)
(*                                                                         *)
(* Times are whole seconds, volumes and slider values are tenths (10 is    *)
(* 1.0).  Each field of a VideoFrame is valued by the number of the sample *)
(* it was copied from, so a frame is complete exactly when its three       *)
(* fields carry one number.                                                *)
(***************************************************************************)
EXTENDS Integers, Sequences

\* ------------------------------------------------------------- bounds
MaxFrames == 2
MaxTime == 1
MaxBus == 1

\* ---------------------------------------------------------- constants
VolumeMin == 0
VolumeMax == 10
InitialVolume == 10

\* ------------------------------------------------------------- values
None == [some |-> FALSE]
Some(v) == [some |-> TRUE, val |-> v]

SetStateResults == {"Success", "Async", "Failure"}
\* The kinds of message the bus watch tells apart, and Other for every kind
\* that falls in its last arm.
Messages == {"Error", "Eos", "StateChanged", "Other"}
NoUri == "unset"
\* The paths the file dialog may give; NonUtf8 stands for a path to_str
\* cannot render.
NonUtf8 == "non-utf8"
Paths == {"/a.mp4"}
\* Arguments of set_volume and seek, in tenths.  The sliders give 0 .. 10; the
\* values outside are there for set_volume's clamp.
VolumeArgs == {-5, 0, 4, 10, 15}
SeekArgs == {0, 5, 10}
Picks == {None} \cup {Some(p) : p \in Paths}
\* What query_position and query_duration may answer: any position up to
\* MaxTime, and one of two durations no shorter than that.
Times == 0 .. MaxTime
Durations == MaxTime .. MaxTime + 1
PositionQueries == {None} \cup {Some(t) : t \in Times}
DurationQueries == {None} \cup {Some(t) : t \in Durations}

VARIABLES
  position,     \* MediaPlayer.position
  duration,     \* MediaPlayer.duration
  volume,       \* MediaPlayer.volume
  pipeline,     \* the playbin: current state, pending target, uri and volume properties
  video_frame,  \* the shared slot Arc<Mutex<Option<VideoFrame>>>
  texture,      \* MediaPlayer.texture
  mutex,        \* who holds the slot's mutex: "none", "writer" or "ui"
  wpc,          \* position of the new_sample callback
  wsample,      \* the callback's local frame (the number of its sample)
  nextSample,   \* samples delivered so far by the framework
  lastStored,   \* history: number of the last sample whose store completed
  rframe,       \* the frame update_texture is reading under the lock
  bus,          \* messages posted on the pipeline's bus, not yet dispatched
  pc,           \* position of the UI thread inside update
  polled,       \* this tick's update_position has run
  fetched,      \* this tick's update_texture has run
  exited,       \* on_exit has run
  lastOp        \* history: the operation of the UI thread's last step, its input, commands and result

vars == <<position, duration, volume, pipeline, video_frame, texture, mutex, wpc,
          wsample, nextSample, lastStored, rframe, bus, pc, polled, fetched,
          exited, lastOp>>

\* ------------------------------------------------- the player as a value
\* The fields a controller method can touch, with the commands it has issued
\* to the pipeline so far and its result.
Self ==
  [position |-> position, duration |-> duration, volume |-> volume,
   pipeline |-> pipeline, cmds |-> <<>>, ret |-> "Ok"]

Cmd(s, c) == [s EXCEPT !.cmds = Append(@, c)]

\* gst::Element::set_state as seen by the caller: the change completes at
\* once, or is started and completes later, or is refused.
set_state(pl, target, res) ==
  CASE res = "Success" -> [pl EXCEPT !.state = target, !.target = target]
    [] res = "Async" -> [pl EXCEPT !.target = target]
    [] OTHER -> pl

get_state_of_target(s) == s.pipeline.target

get_state(s) == s.pipeline.state

set_null(s, res) ==
  LET t == Cmd(s, <<"set_state", "Null">>)
  IN IF res = "Failure"
       THEN [t EXCEPT !.ret = "GstreamerError"]
       ELSE [t EXCEPT !.pipeline = set_state(@, "Null", res)]

play(s, res) ==
  LET t == Cmd(s, <<"set_state", "Playing">>)
  IN IF res = "Failure"
       THEN [t EXCEPT !.ret = "GstreamerError"]
       ELSE [t EXCEPT !.pipeline = set_state(@, "Playing", res)]

pause(s, res) ==
  LET t == Cmd(s, <<"set_state", "Paused">>)
  IN IF res = "Failure"
       THEN [t EXCEPT !.ret = "GstreamerError"]
       ELSE [t EXCEPT !.pipeline = set_state(@, "Paused", res)]

stop_resets_on_failure(s, res) ==
  LET t == Cmd(s, <<"set_state", "Ready">>)
  IN IF res = "Failure"
       THEN [t EXCEPT !.ret = "GstreamerError", !.position = Some(0)]
       ELSE [t EXCEPT !.pipeline = set_state(@, "Ready", res), !.position = Some(0)]

stop(s, res) ==
  LET t == Cmd(s, <<"set_state", "Ready">>)
  IN IF res = "Failure"
       THEN [t EXCEPT !.ret = "GstreamerError"]
       ELSE [t EXCEPT !.pipeline = set_state(@, "Ready", res), !.position = Some(0)]

\* format!("file://{}", path.to_str().unwrap_or(""))
format_uri(path) == IF path = NonUtf8 THEN "file://" ELSE "file://" \o path

load_file_ignores_stop_error(s, path, res1, res2) ==
  LET a == [stop(s, res1) EXCEPT !.ret = "Ok"]
      b == [Cmd(a, <<"set_uri", format_uri(path)>>) EXCEPT
              !.pipeline.uri = format_uri(path),
              !.duration = None,
              !.position = Some(0)]
  IN play(b, res2)

load_file(s, path, res1, res2) ==
  LET a == stop(s, res1)
      b == [Cmd(a, <<"set_uri", format_uri(path)>>) EXCEPT
              !.pipeline.uri = format_uri(path),
              !.duration = None,
              !.position = Some(0)]
  IN IF a.ret # "Ok" THEN a ELSE play(b, res2)

\* FileDialog::pick_file gives a path or, when cancelled, nothing.
select_file(s, picked, res1, res2) ==
  IF picked.some THEN load_file(s, picked.val, res1, res2) ELSE s

clamp_above_only(v, lo, hi) == IF v > hi THEN hi ELSE v

clamp(v, lo, hi) == IF v < lo THEN lo ELSE IF v > hi THEN hi ELSE v

set_volume(s, v) ==
  LET c == clamp(v, VolumeMin, VolumeMax)
  IN [Cmd(s, <<"set_volume", c>>) EXCEPT !.volume = c, !.pipeline.volume = Some(c)]

toggle_playback(s, res) ==
  CASE get_state(s) = "Playing" -> pause(s, res)
    [] get_state(s) \in {"Paused", "Ready"} -> play(s, res)
    [] OTHER -> s

update_position_requeries_duration(s, qpos, qdur) ==
  LET a == IF qpos.some THEN [s EXCEPT !.position = qpos] ELSE s
  IN IF qdur.some THEN [a EXCEPT !.duration = qdur] ELSE a

update_position(s, qpos, qdur) ==
  LET a == IF qpos.some THEN [s EXCEPT !.position = qpos] ELSE s
  IN IF a.duration = None /\ qdur.some THEN [a EXCEPT !.duration = qdur] ELSE a

\* pos is the slider's value in tenths, so the target is in tenths of a second.
seek(s, pos, ok) ==
  IF s.duration.some
    THEN LET t == Cmd(s, <<"seek", pos * s.duration.val>>)
         IN IF ok THEN t ELSE [t EXCEPT !.ret = "GstreamerError"]
    ELSE s

\* The bus watch: alive is the outcome of pipeline_weak.upgrade().
bus_watch_eos_logged_only(s, msg, alive, res) == s

bus_watch_eos_as_stop(s, msg, alive, res) ==
  IF alive /\ msg = "Eos" THEN [stop(s, res) EXCEPT !.ret = "Ok"] ELSE s

bus_watch(s, msg, alive, res) ==
  IF alive /\ msg = "Eos"
    THEN [Cmd(s, <<"set_state", "Ready">>) EXCEPT !.pipeline = set_state(@, "Ready", res)]
    ELSE s

\* ------------------------------------------------------ the frame slot
NoFrame == [some |-> FALSE, width |-> 0, height |-> 0, data |-> 0]
Frame(n) == [some |-> TRUE, width |-> n, height |-> n, data |-> n]

\* Mutex::lock returns once nobody else holds the mutex.
CanLock_unguarded(holder) == TRUE

CanLock(holder) == holder = "none"

\* update_texture borrows the slot's frame (as_ref): the slot keeps it.
take(slot) == NoFrame

as_ref(slot) == slot

\* ----------------------------------------------------------- one tick
\* The steps of update, in the order of the code.
TickOrder_controls_first ==
  <<"drain", "keys", "controls", "poll", "fetch", "top", "central", "idle">>

TickOrder ==
  <<"drain", "keys", "poll", "fetch", "top", "controls", "central", "idle">>

After(p) == TickOrder[(CHOOSE i \in 1 .. Len(TickOrder) : TickOrder[i] = p) + 1]

\* What an operation leaves in the player, and the record kept of it.
Apply(s) ==
  /\ position' = s.position
  /\ duration' = s.duration
  /\ volume' = s.volume
  /\ pipeline' = s.pipeline

Op(name, arg, s) ==
  lastOp' = [name |-> name, arg |-> arg, cmds |-> s.cmds, ret |-> s.ret,
             updated |-> polled /\ fetched]

\* The UI thread's last step was no operation of the player.
NoOp == [name |-> "none", arg |-> "", cmds |-> <<>>, ret |-> "Ok", updated |-> FALSE]

Init ==
  /\ position = None
  /\ duration = None
  /\ volume = InitialVolume
  /\ pipeline = [state |-> "Null", target |-> "Null", uri |-> NoUri, volume |-> None]
  /\ video_frame = NoFrame
  /\ texture = NoFrame
  /\ mutex = "none"
  /\ wpc = "idle"
  /\ wsample = 0
  /\ nextSample = 0
  /\ lastStored = 0
  /\ rframe = NoFrame
  /\ bus = <<>>
  /\ pc = "idle"
  /\ polled = FALSE
  /\ fetched = FALSE
  /\ exited = FALSE
  /\ lastOp = NoOp

\* ------------------------------------------- the new_sample callback
\* pull_sample, buffer, caps, VideoInfo::from_caps, map_readable: any of them
\* may fail, and the callback then returns without touching the slot.
NewSamplePull ==
  /\ ~exited
  /\ wpc = "idle"
  /\ pipeline.uri # NoUri
  /\ nextSample < MaxFrames
  /\ nextSample' = nextSample + 1
  /\ \E ok \in BOOLEAN :
       IF ok THEN wsample' = nextSample + 1 /\ wpc' = "lock"
             ELSE wsample' = wsample /\ wpc' = "idle"
  /\ UNCHANGED <<position, duration, volume, pipeline, video_frame, texture, mutex,
                 lastStored, rframe, bus, pc, polled, fetched, exited, lastOp>>

NewSampleLock ==
  /\ wpc = "lock"
  /\ CanLock(mutex)
  /\ mutex' = "writer"
  /\ wpc' = "store_width"
  /\ UNCHANGED <<position, duration, volume, pipeline, video_frame, texture, wsample,
                 nextSample, lastStored, rframe, bus, pc, polled, fetched, exited,
                 lastOp>>

NewSampleStoreWidth ==
  /\ wpc = "store_width"
  /\ video_frame' = [video_frame EXCEPT !.some = TRUE, !.width = wsample]
  /\ wpc' = "store_height"
  /\ UNCHANGED <<position, duration, volume, pipeline, texture, mutex, wsample,
                 nextSample, lastStored, rframe, bus, pc, polled, fetched, exited,
                 lastOp>>

NewSampleStoreHeight ==
  /\ wpc = "store_height"
  /\ video_frame' = [video_frame EXCEPT !.height = wsample]
  /\ wpc' = "store_data"
  /\ UNCHANGED <<position, duration, volume, pipeline, texture, mutex, wsample,
                 nextSample, lastStored, rframe, bus, pc, polled, fetched, exited,
                 lastOp>>

\* The last field is stored and the guard is dropped.
NewSampleStoreData ==
  /\ wpc = "store_data"
  /\ video_frame' = [video_frame EXCEPT !.data = wsample]
  /\ lastStored' = wsample
  /\ mutex' = IF mutex = "writer" THEN "none" ELSE mutex
  /\ wpc' = "idle"
  /\ UNCHANGED <<position, duration, volume, pipeline, texture, wsample, nextSample,
                 rframe, bus, pc, polled, fetched, exited, lastOp>>

new_sample ==
  \/ NewSamplePull
  \/ NewSampleLock
  \/ NewSampleStoreWidth
  \/ NewSampleStoreHeight
  \/ NewSampleStoreData

\* ------------------------------------------------------- the pipeline
\* A state change that was started completes.
StateChangeDone ==
  /\ ~exited
  /\ pipeline.state # pipeline.target
  /\ pipeline' = [pipeline EXCEPT !.state = pipeline.target]
  /\ UNCHANGED <<position, duration, volume, video_frame, texture, mutex, wpc,
                 wsample, nextSample, lastStored, rframe, bus, pc, polled, fetched,
                 exited, lastOp>>

\* The pipeline posts a message on its bus.
PostMessage ==
  /\ ~exited
  /\ Len(bus) < MaxBus
  /\ \E msg \in Messages : bus' = Append(bus, msg)
  /\ UNCHANGED <<position, duration, volume, pipeline, video_frame, texture, mutex,
                 wpc, wsample, nextSample, lastStored, rframe, pc, polled, fetched,
                 exited, lastOp>>

\* ------------------------------------------------------ the UI thread
\* What a controller call on the UI thread leaves alone.
UiFrame ==
  UNCHANGED <<video_frame, texture, mutex, wpc, wsample, nextSample, lastStored,
              rframe, bus, polled, fetched, exited>>

BeginTick ==
  /\ ~exited
  /\ pc = "idle"
  /\ pc' = TickOrder[1]
  /\ polled' = FALSE
  /\ fetched' = FALSE
  /\ lastOp' = NoOp
  /\ UNCHANGED <<position, duration, volume, pipeline, video_frame, texture, mutex,
                 wpc, wsample, nextSample, lastStored, rframe, bus, exited>>

\* while self.main_context.iteration(false) {}: one pending message is
\* dispatched to the bus watch.
BusWatch ==
  /\ pc = "drain"
  /\ bus # <<>>
  /\ \E res \in SetStateResults :
       LET s == bus_watch(Self, Head(bus), ~exited, res)
       IN Apply(s) /\ Op("bus_watch", Head(bus), s)
  /\ bus' = Tail(bus)
  /\ UNCHANGED <<video_frame, texture, mutex, wpc, wsample, nextSample, lastStored,
                 rframe, pc, polled, fetched, exited>>

Skip(p) ==
  /\ pc = p
  /\ pc' = After(p)
  /\ lastOp' = NoOp
  /\ UNCHANGED <<position, duration, volume, pipeline, video_frame, texture, mutex,
                 wpc, wsample, nextSample, lastStored, rframe, bus, polled, fetched,
                 exited>>

\* Nothing is pending any more.
DrainDone == bus = <<>> /\ Skip("drain")

KeySpace ==
  /\ pc = "keys"
  /\ \E res \in SetStateResults :
       LET s == toggle_playback(Self, res)
       IN Apply(s) /\ Op("toggle_playback", <<"Space", pipeline.state>>, s)
  /\ pc' = After("keys")
  /\ UiFrame

KeyNone == Skip("keys")

UpdatePosition ==
  /\ pc = "poll"
  /\ \E qpos \in PositionQueries, qdur \in DurationQueries :
       LET s == update_position(Self, qpos, qdur)
       IN Apply(s) /\ Op("update_position", <<qpos, qdur>>, s)
  /\ polled' = TRUE
  /\ pc' = After("poll")
  /\ UNCHANGED <<video_frame, texture, mutex, wpc, wsample, nextSample, lastStored,
                 rframe, bus, fetched, exited>>

\* update_texture: self.video_frame.lock()
UpdateTextureLock ==
  /\ pc = "fetch"
  /\ CanLock(mutex)
  /\ mutex' = "ui"
  /\ rframe' = NoFrame
  /\ pc' = "read_width"
  /\ lastOp' = NoOp
  /\ UNCHANGED <<position, duration, volume, pipeline, video_frame, texture, wpc,
                 wsample, nextSample, lastStored, bus, polled, fetched, exited>>

\* The slot is empty: the texture is left as it is.
UpdateTextureNone ==
  /\ pc = "read_width"
  /\ ~video_frame.some
  /\ mutex' = IF mutex = "ui" THEN "none" ELSE mutex
  /\ fetched' = TRUE
  /\ pc' = After("fetch")
  /\ lastOp' = [name |-> "update_texture", arg |-> NoFrame, cmds |-> <<>>,
                ret |-> "Ok", updated |-> FALSE]
  /\ UNCHANGED <<position, duration, volume, pipeline, video_frame, texture, wpc,
                 wsample, nextSample, lastStored, rframe, bus, polled, exited>>

UpdateTextureWidth ==
  /\ pc = "read_width"
  /\ video_frame.some
  /\ rframe' = [rframe EXCEPT !.some = TRUE, !.width = video_frame.width]
  /\ pc' = "read_height"
  /\ UNCHANGED <<position, duration, volume, pipeline, video_frame, texture, mutex,
                 wpc, wsample, nextSample, lastStored, bus, polled, fetched, exited,
                 lastOp>>

UpdateTextureHeight ==
  /\ pc = "read_height"
  /\ rframe' = [rframe EXCEPT !.height = video_frame.height]
  /\ pc' = "read_data"
  /\ UNCHANGED <<position, duration, volume, pipeline, video_frame, texture, mutex,
                 wpc, wsample, nextSample, lastStored, bus, polled, fetched, exited,
                 lastOp>>

\* The pixels are read, the texture is made of what was read, the guard is
\* dropped.
UpdateTextureData ==
  /\ pc = "read_data"
  /\ texture' = [rframe EXCEPT !.data = video_frame.data]
  /\ video_frame' = as_ref(video_frame)
  /\ rframe' = NoFrame
  /\ mutex' = IF mutex = "ui" THEN "none" ELSE mutex
  /\ fetched' = TRUE
  /\ pc' = After("fetch")
  /\ lastOp' = [name |-> "update_texture", arg |-> video_frame, cmds |-> <<>>,
                ret |-> "Ok", updated |-> FALSE]
  /\ UNCHANGED <<position, duration, volume, pipeline, wpc, wsample, nextSample,
                 lastStored, bus, polled, exited>>

\* File > Open file
ClickOpenFile ==
  /\ pc = "top"
  /\ \E picked \in Picks, res1 \in SetStateResults, res2 \in SetStateResults :
       LET s == select_file(Self, picked, res1, res2)
       IN Apply(s) /\ Op("select_file", <<picked, res1, res2>>, s)
  /\ pc' = After("top")
  /\ UiFrame

TopNone == Skip("top")

ClickToggle ==
  /\ pc = "controls"
  /\ \E res \in SetStateResults :
       LET s == toggle_playback(Self, res)
       IN Apply(s) /\ Op("toggle_playback", <<"Button", pipeline.state>>, s)
  /\ pc' = After("controls")
  /\ UiFrame

ClickStop ==
  /\ pc = "controls"
  /\ \E res \in SetStateResults :
       LET s == stop(Self, res)
       IN Apply(s) /\ Op("stop", res, s)
  /\ pc' = After("controls")
  /\ UiFrame

\* The position slider is live only when position and duration are known.
DragSeek ==
  /\ pc = "controls"
  /\ position.some /\ duration.some
  /\ \E pos \in SeekArgs, ok \in BOOLEAN :
       LET s == seek(Self, pos, ok)
       IN Apply(s) /\ Op("seek", pos, s)
  /\ pc' = After("controls")
  /\ UiFrame

DragVolume ==
  /\ pc = "controls"
  /\ \E v \in VolumeArgs :
       LET s == set_volume(Self, v)
       IN Apply(s) /\ Op("set_volume", v, s)
  /\ pc' = After("controls")
  /\ UiFrame

ControlsNone == Skip("controls")

\* The central panel shows "Select file" only while there is no texture.
SelectFileShown == ~texture.some

ClickSelectFile ==
  /\ pc = "central"
  /\ SelectFileShown
  /\ \E picked \in Picks, res1 \in SetStateResults, res2 \in SetStateResults :
       LET s == select_file(Self, picked, res1, res2)
       IN Apply(s) /\ Op("select_file", <<picked, res1, res2>>, s)
  /\ pc' = After("central")
  /\ UiFrame

CentralNone == Skip("central")

\* on_exit: let _ = self.set_null()
on_exit ==
  /\ ~exited
  /\ pc = "idle"
  /\ \E res \in SetStateResults :
       LET s == set_null(Self, res)
       IN Apply(s) /\ Op("on_exit", res, s)
  /\ exited' = TRUE
  /\ UNCHANGED <<video_frame, texture, mutex, wpc, wsample, nextSample, lastStored,
                 rframe, bus, pc, polled, fetched>>

update_texture ==
  \/ UpdateTextureLock
  \/ UpdateTextureNone
  \/ UpdateTextureWidth
  \/ UpdateTextureHeight
  \/ UpdateTextureData

update ==
  \/ BeginTick
  \/ BusWatch
  \/ DrainDone
  \/ KeySpace
  \/ KeyNone
  \/ UpdatePosition
  \/ update_texture
  \/ ClickOpenFile
  \/ TopNone
  \/ ClickToggle
  \/ ClickStop
  \/ DragSeek
  \/ DragVolume
  \/ ControlsNone
  \/ ClickSelectFile
  \/ CentralNone

\* The whole program.
Next ==
  \/ update
  \/ on_exit
  \/ new_sample
  \/ StateChangeDone
  \/ PostMessage

Spec == Init /\ [][Next]_vars

\* Three parts of Next follow, each with the steps its properties are about.
\*
\* The controller: every step of the program but the delivery of samples, so
\* that the slot stays empty and update_texture finds nothing.
ControlTick ==
  \/ BeginTick
  \/ BusWatch
  \/ DrainDone
  \/ KeySpace
  \/ KeyNone
  \/ UpdatePosition
  \/ UpdateTextureLock
  \/ UpdateTextureNone
  \/ ClickOpenFile
  \/ TopNone
  \/ ClickToggle
  \/ ClickStop
  \/ DragSeek
  \/ DragVolume
  \/ ControlsNone
  \/ ClickSelectFile
  \/ CentralNone

ControlNext ==
  \/ ControlTick
  \/ on_exit
  \/ StateChangeDone
  \/ PostMessage

ControlSpec == Init /\ [][ControlNext]_vars

\* The frame relay: the callback and the ticks that read the slot, with the
\* operations that load, stop, seek and end a stream.
RelayNext ==
  \/ new_sample
  \/ update_texture
  \/ BeginTick
  \/ BusWatch
  \/ DrainDone
  \/ KeyNone
  \/ UpdatePosition
  \/ ClickOpenFile
  \/ TopNone
  \/ ClickStop
  \/ DragSeek
  \/ ControlsNone
  \/ ClickSelectFile
  \/ CentralNone
  \/ PostMessage

RelaySpec == Init /\ [][RelayNext]_vars

\* The bus and its watch: the ticks that drain the main context, the
\* pipeline that posts messages and completes state changes, a file being
\* opened, the exit.  Every update ends by asking for the next repaint, so the
\* ticks keep coming until the program exits.
BusTick ==
  \/ BeginTick
  \/ BusWatch
  \/ DrainDone
  \/ KeyNone
  \/ UpdatePosition
  \/ UpdateTextureLock
  \/ UpdateTextureNone
  \/ ClickOpenFile
  \/ TopNone
  \/ ControlsNone
  \/ CentralNone

BusNext ==
  \/ BusTick
  \/ on_exit
  \/ StateChangeDone
  \/ PostMessage

BusSpec == Init /\ [][BusNext]_vars /\ WF_vars(BusTick)

\* ------------------------------------------------------------- claims
\* Steps of the UI thread, told from the steps of the other threads.
BusWatchStep == pc = "drain" /\ bus # <<>> /\ Len(bus') < Len(bus)
StepOf(phases, name) == pc \in phases /\ pc' # pc /\ lastOp'.name = name
FetchDone == ~fetched /\ fetched'

Ready == <<"set_state", "Ready">>
Paused == <<"set_state", "Paused">>
Playing == <<"set_state", "Playing">>

Complete(f) == f.width = f.height /\ f.height = f.data
Stored == IF lastStored = 0 THEN NoFrame ELSE Frame(lastStored)

\* C1: the frame the reader sees is one complete frame stored by a single
\* callback (its width, height and data come from one sample), and it is the
\* most recently stored one; while no store is under way the slot holds the
\* last frame stored, and neither the slot nor the texture ever goes back to
\* an older frame.
C1_FrameRelay ==
  [][/\ Complete(texture')
     /\ (mutex' # "writer" => video_frame' = Stored')
     /\ (FetchDone => texture' = Stored)
     /\ video_frame'.data >= video_frame.data
     /\ texture'.data >= texture.data]_vars

C1_Witness ==
  /\ lastOp.name = "update_texture"
  /\ lastOp.arg = Frame(2)
  /\ texture = Frame(2)

\* C2: the bus watch answers every end-of-stream message it handles with a
\* request for the Ready state, and as long as ticks keep occurring every
\* end-of-stream message on the bus is eventually followed by that request.
EosPending == \E i \in 1 .. Len(bus) : bus[i] = "Eos"
EosHandled == lastOp.name = "bus_watch" /\ lastOp.arg = "Eos" /\ lastOp.cmds = <<Ready>>

C2_EosRequestsReady ==
  /\ [][BusWatchStep /\ Head(bus) = "Eos" => EosHandled']_vars
  /\ ([]<><<BusTick>>_vars => (EosPending ~> EosHandled))

C2_Witness == EosHandled /\ pipeline.target = "Ready" /\ pipeline.uri # NoUri

\* C3: the bus watch leaves position, duration, volume, the slot and the
\* texture as they are, whatever the message; and for every message but
\* end-of-stream it issues no command and leaves the pipeline as it is.
C3_BusWatchFrame ==
  [][BusWatchStep =>
       /\ UNCHANGED <<position, duration, volume, video_frame, texture>>
       /\ lastOp'.name = "bus_watch"
       /\ (Head(bus) # "Eos" => lastOp'.cmds = <<>> /\ pipeline' = pipeline)]_vars

C3_Witness ==
  /\ lastOp.name = "bus_watch"
  /\ lastOp.arg = "Eos"
  /\ position = Some(1)
  /\ duration.some
  /\ video_frame.some
  /\ texture.some

\* C4 as claimed: no controller command is issued in a tick before that
\* tick's position poll and frame fetch, whatever the input.
ControllerOps == {"toggle_playback", "stop", "seek", "set_volume", "select_file"}
Commanded == lastOp.name \in ControllerOps /\ lastOp.cmds # <<>>
FromSpace == lastOp.name = "toggle_playback" /\ lastOp.arg[1] = "Space"

C4_Original == Commanded => lastOp.updated

\* C4 as amended: in every tick the poll comes before the fetch, and no
\* command of a clicked or dragged control is issued before both have run;
\* the Space shortcut's command is issued before them.
C4_TickOrder ==
  /\ fetched => polled
  /\ (Commanded /\ ~FromSpace => lastOp.updated)
  /\ (Commanded /\ FromSpace => ~lastOp.updated)

C4_Witness == lastOp.name = "stop" /\ lastOp.cmds = <<Ready>> /\ lastOp.updated

\* C5: volume is always within [0, 1]; after set_volume it is the argument
\* clamped to [0, 1] and the value written to the pipeline's volume property;
\* nothing but set_volume changes it.
Lower(a, b) == IF a < b THEN a ELSE b
Higher(a, b) == IF a > b THEN a ELSE b

C5_Volume ==
  [][/\ volume' \in VolumeMin .. VolumeMax
     /\ (StepOf({"controls"}, "set_volume") =>
           /\ volume' = Higher(VolumeMin, Lower(VolumeMax, lastOp'.arg))
           /\ pipeline'.volume = Some(volume')
           /\ lastOp'.cmds = <<<<"set_volume", volume'>>>>)
     /\ (~StepOf({"controls"}, "set_volume") =>
           volume' = volume /\ pipeline'.volume = pipeline.volume)
     /\ (pipeline'.volume = None => volume' = InitialVolume)]_vars

C5_Witness == lastOp.name = "set_volume" /\ lastOp.arg = -5 /\ volume = 0

\* C6: stop answers Ok with position zero when the Ready request is accepted,
\* and a GstreamerError with position untouched when it is refused; duration,
\* volume, the slot and the texture stay as they are either way.
C6_Stop ==
  [][StepOf({"controls"}, "stop") =>
       /\ lastOp'.cmds = <<Ready>>
       /\ (lastOp'.arg # "Failure" => lastOp'.ret = "Ok" /\ position' = Some(0))
       /\ (lastOp'.arg = "Failure" =>
             lastOp'.ret = "GstreamerError" /\ position' = position)
       /\ UNCHANGED <<duration, volume, video_frame, texture>>]_vars

C6_Witness ==
  /\ lastOp.name = "stop"
  /\ lastOp.ret = "GstreamerError"
  /\ position = Some(1)
  /\ texture.some

\* C7: toggle_playback goes by the pipeline's current state at the call:
\* Playing asks for Paused, Paused and Ready ask for Playing, any other state
\* asks for nothing and answers Ok.
C7_Toggle ==
  lastOp.name = "toggle_playback" =>
    LET current == lastOp.arg[2]
    IN /\ (current = "Playing" => lastOp.cmds = <<Paused>>)
       /\ (current \in {"Paused", "Ready"} => lastOp.cmds = <<Playing>>)
       /\ (current \notin {"Playing", "Paused", "Ready"} =>
             lastOp.cmds = <<>> /\ lastOp.ret = "Ok")
       /\ Ready \notin {lastOp.cmds[i] : i \in 1 .. Len(lastOp.cmds)}
       /\ <<"set_state", "Null">> \notin {lastOp.cmds[i] : i \in 1 .. Len(lastOp.cmds)}

C7_Witness ==
  /\ lastOp.name = "toggle_playback"
  /\ lastOp.arg[2] = "Ready"
  /\ pipeline.target = "Playing"
  /\ lastOp.cmds = <<Playing>>

\* C8: load_file asks for Ready, sets the uri, clears the duration, zeroes the
\* position and asks for Playing, in that order; a refused stop ends it with
\* the error, uri and duration untouched and Playing not asked for; a
\* cancelled dialog changes nothing and answers Ok.
SelectFileStep == StepOf({"top", "central"}, "select_file")

C8_LoadFile ==
  [][SelectFileStep =>
       LET picked == lastOp'.arg[1]
           res1 == lastOp'.arg[2]
           res2 == lastOp'.arg[3]
           cmds == lastOp'.cmds
       IN /\ (~picked.some =>
                /\ cmds = <<>>
                /\ lastOp'.ret = "Ok"
                /\ UNCHANGED <<position, duration, volume, pipeline>>)
          /\ (picked.some /\ res1 = "Failure" =>
                /\ cmds = <<Ready>>
                /\ lastOp'.ret = "GstreamerError"
                /\ UNCHANGED <<position, duration, volume, pipeline>>)
          /\ (picked.some /\ res1 # "Failure" =>
                /\ Len(cmds) = 3
                /\ cmds[1] = Ready
                /\ cmds[2] = <<"set_uri", pipeline'.uri>>
                /\ cmds[3] = Playing
                /\ pipeline'.uri # NoUri
                /\ duration' = None
                /\ position' = Some(0)
                /\ (res2 # "Failure" => lastOp'.ret = "Ok" /\ pipeline'.target = "Playing")
                /\ (res2 = "Failure" => lastOp'.ret = "GstreamerError"))]_vars

C8_Witness ==
  /\ lastOp.name = "select_file"
  /\ lastOp.arg[1].some
  /\ lastOp.arg[2] = "Failure"
  /\ duration.some
  /\ pipeline.uri # NoUri

\* C9: every tick polls; the poll sets position to the queried value, or leaves
\* it when the query fails; the duration is taken from the query only while it
\* is unknown, and once known it changes only when load_file clears it.
C9_PositionDuration ==
  [][/\ (pc' \notin {"idle", "drain", "keys", "poll"} => polled')
     /\ (StepOf({"poll"}, "update_position") =>
           LET qpos == lastOp'.arg[1]
               qdur == lastOp'.arg[2]
           IN /\ position' = IF qpos.some THEN qpos ELSE position
              /\ (~duration.some => duration' = qdur))
     /\ (duration.some /\ duration' # duration =>
           SelectFileStep /\ lastOp'.arg[1].some /\ duration' = None)]_vars

C9_Witness ==
  /\ lastOp.name = "update_position"
  /\ lastOp.arg[1] = None
  /\ lastOp.arg[2] = Some(2)
  /\ position = Some(1)
  /\ duration = Some(1)

\* C10: the slot and the texture are never emptied; a tick that finds the
\* slot empty leaves the texture alone and a tick that finds a frame makes it
\* the texture; once a texture exists "Select file" is not shown again.
C10_NeverCleared ==
  [][/\ (video_frame.some => video_frame'.some)
     /\ (texture.some => texture'.some /\ ~SelectFileShown')
     /\ (FetchDone => texture' = IF video_frame.some THEN video_frame ELSE texture)
     /\ (~FetchDone => texture' = texture)]_vars

C10_Witness ==
  /\ lastOp.name = "select_file"
  /\ lastOp.ret = "Ok"
  /\ texture = Frame(1)
  /\ video_frame = Frame(1)


====
